---- MODULE Spec2Model ----
(***************************************************************************)
(* Model of src/library.py: a FastAPI service over one PostgreSQL table    *)
(* `books`, reached through ONE module-level psycopg connection `con`, and *)
(* an `uploads` directory.  The three routes are plain `def` handlers, so  *)
(* the framework runs them on pool threads; psycopg serialises the threads *)
(* statement by statement on the shared connection, and all of them share  *)
(* the connection's single open transaction.  A handler is therefore a     *)
(* short process whose steps are its accesses to the connection and to the *)
(* filesystem.                                                             *)
(*                                                                         *)
(* Text is a sequence of one-character strings.  The alphabet is ASCII     *)
(* without the backslash; whitespace is the blank.                         *)
(***************************************************************************)
EXTENDS Integers, Sequences, FiniteSets, TLC

VARIABLES books, tx, seq, uploads, th, returned

vars == <<books, tx, seq, uploads, th, returned>>

\* ------------------------------------------------------------ bounds ----
\* the model stops creating once the serial has handed out MaxBooks ids
MaxBooks == 2

\* ---------------------------------------------------------- constants ---
MinLen == 3
MaxLen == 100
MaxPageSize == 50

\* SQL NULL / Python None / a form field that was not sent
NULL == <<"NULL">>

Threads == {"t1", "t2"}

UPLOAD_DIR == "uploads"

\* ------------------------------------------------------ text helpers ----
LowerChar(c) ==
    CASE c = "D" -> "d"
      [] c = "U" -> "u"
      [] c = "N" -> "n"
      [] c = "E" -> "e"
      [] c = "A" -> "a"
      [] c = "H" -> "h"
      [] c = "B" -> "b"
      [] OTHER -> c

\* str.lower() and SQL LOWER()
lower(s) == [i \in 1..Len(s) |-> LowerChar(s[i])]

RECURSIVE lstrip(_)
lstrip(s) == IF s # <<>> /\ Head(s) = " " THEN lstrip(Tail(s)) ELSE s

RECURSIVE rstrip(_)
rstrip(s) ==
    IF s # <<>> /\ s[Len(s)] = " " THEN rstrip(SubSeq(s, 1, Len(s) - 1)) ELSE s

\* str.strip()
strip(s) == rstrip(lstrip(s))

\* SQL  s LIKE p : % is any run of characters, _ is any one character
RECURSIVE Like(_, _)
Like(s, p) ==
    IF p = <<>> THEN s = <<>>
    ELSE IF Head(p) = "%"
         THEN Like(s, Tail(p)) \/ (s # <<>> /\ Like(Tail(s), p))
    ELSE IF Head(p) = "_"
         THEN s # <<>> /\ Like(Tail(s), Tail(p))
    ELSE s # <<>> /\ Head(s) = Head(p) /\ Like(Tail(s), Tail(p))

\* Field(..., min_length=3, max_length=100)
LenOK(s) == Len(s) >= MinLen /\ Len(s) <= MaxLen

\* the Book response model: construction raises unless this holds
Book(r) ==
    /\ LenOK(r.title)
    /\ LenOK(r.author)
    /\ (r.publisher = NULL \/ LenOK(r.publisher))

\* ------------------------------------------------------ the database ----
\* what a statement on `con` sees: the committed rows and the rows of the
\* connection's open transaction
Visible == books \cup tx

RECURSIVE OrderById(_)
OrderById(rows) ==
    IF rows = {} THEN <<>>
    ELSE LET r == CHOOSE x \in rows : \A y \in rows : x.id <= y.id
         IN  <<r>> \o OrderById(rows \ {r})

\* ... LIMIT page_size OFFSET offset
LimitOffset(s, page_size, offset) ==
    SubSeq(s, offset + 1,
           IF offset + page_size < Len(s) THEN offset + page_size ELSE Len(s))

OffsetFromPage(page, page_size) == page * page_size

\* offset = (page - 1) * page_size
Offset(page, page_size) == (page - 1) * page_size

TotalPagesFloor(total, page_size) == total \div page_size

\* total_pages = (total + page_size - 1) // page_size
TotalPages(total, page_size) == (total + page_size - 1) \div page_size

\* query_lower = f"%{query.strip().lower()}%"
QueryLower(query) == <<"%">> \o lower(strip(query)) \o <<"%">>

\* WHERE LOWER(title) LIKE p OR LOWER(author) LIKE p OR LOWER(publisher) LIKE p
Where(r, p) ==
    \/ Like(lower(r.title), p)
    \/ Like(lower(r.author), p)
    \/ (r.publisher # NULL /\ Like(lower(r.publisher), p))

\* the rows a read request selects from
Selected(req) ==
    IF req.kind = "search"
    THEN {r \in Visible : Where(r, QueryLower(req.query))}
    ELSE Visible

\* Query(1, ge=1) and Query(10, ge=1, le=50)
PagingOK(page, page_size) ==
    page >= 1 /\ page_size >= 1 /\ page_size <= MaxPageSize

\* Query(..., min_length=3, max_length=100)
QueryOK(query) == query # NULL /\ LenOK(query)

\* Form(...) for title and author, Form(None, min_length=3, max_length=100)
FormOK(req) ==
    /\ req.title # NULL
    /\ req.author # NULL
    /\ (req.publisher = NULL \/ LenOK(req.publisher))

\* publisher.strip() if publisher else None
PublisherValue(publisher) ==
    IF publisher # NULL /\ publisher # <<>> THEN strip(publisher) ELSE NULL

HasFileAnyName(req) == req.cover_image.filename # NULL

\* `cover_image and cover_image.filename`
HasFile(req) ==
    req.cover_image.filename # NULL /\ req.cover_image.filename # <<>>

\* os.path.join(UPLOAD_DIR, str(uuid.uuid4()) + "_" + filename)
FilePath(uuid, filename) == <<UPLOAD_DIR, uuid, filename>>

\* uuid.uuid4(): a value no earlier call returned; up to renaming, the least
\* number that names no file yet
RECURSIVE Fresh(_)
Fresh(n) ==
    IF \E p \in DOMAIN uploads : p[2] = n THEN Fresh(n + 1) ELSE n

Uuid4 == Fresh(1)

\* open(file_path, "wb") succeeds only when the parent directory exists:
\* uploads/<uuid>_<filename> names a file of uploads/ iff filename has no "/"
CanOpen(filename) == \A i \in 1..Len(filename) : filename[i] # "/"

\* f.write(content)
Written(content) == content

\* ------------------------------------------------------ the requests ----
\* cover_image: UploadFile = File(None), not sent
NoFile == [filename |-> NULL, content |-> <<>>]
Png == [filename |-> <<"c", ".", "p">>, content |-> <<1, 2>>]
Unnamed == [filename |-> <<>>, content |-> <<3>>]
Nested == [filename |-> <<"a", "/", "c">>, content |-> <<4>>]

Dune == <<"D", "u", "n", "e">>
Herbert == <<"H", "e", "r", "b">>

CreateReq(t, a, p, f) ==
    [kind |-> "create", title |-> t, author |-> a, publisher |-> p, cover_image |-> f]

CreateRequests ==
    { CreateReq(Dune, Herbert, <<"A", "c", "e">>, NoFile),
      CreateReq(<<"H", "i">>, <<"B", "o", "b">>, NULL, Png),
      CreateReq(<<" ">> \o Dune \o <<" ">>, Herbert, <<" ", " ", " ">>, Unnamed),
      CreateReq(NULL, Herbert, NULL, Png),
      CreateReq(Dune, Herbert, <<"A", "c">>, Png),
      CreateReq(Dune, Herbert, NULL, Nested) }

Paging == {<<1, 1>>, <<2, 1>>, <<1, 2>>, <<0, 1>>, <<1, 51>>}

SearchPaging == {<<2, 1>>, <<1, 2>>}

Queries ==
    { <<"d", "u", "n">>, <<"D", "_", "N">>, <<"x", "y", "z">>,
      <<"e", " ", " ">>, <<"d", "u">>, NULL }

ListRequests ==
    { [kind |-> "list", page |-> pg[1], page_size |-> pg[2]] : pg \in Paging }

SearchRequests ==
    { [kind |-> "search", query |-> q, page |-> pg[1], page_size |-> pg[2]] :
        q \in Queries, pg \in SearchPaging }

\* ------------------------------------------------------- the threads ----
NoRequest == [kind |-> "none"]

\* the body of an error response carries no book and no page
NoBody == [detail |-> "error"]

Idle ==
    [pc |-> "idle", req |-> NoRequest, path |-> NULL, book_id |-> 0,
     total |-> 0, seen |-> 0, status |-> 0, body |-> NoBody]

Free(t) == th[t].pc \in {"idle", "done"}

Respond(t, req, status, body) ==
    [Idle EXCEPT !.pc = "done", !.req = req, !.status = status, !.body = body]

Init ==
    /\ books = {}
    /\ tx = {}
    /\ seq = 1
    /\ uploads = <<>>
    /\ th = [t \in Threads |-> Idle]
    /\ returned = {}

\* the creates that have not reached their INSERT yet
Inserting == Cardinality({t \in Threads : th[t].pc = "insert"})

\* POST /books, up to the INSERT: request validation, then the upload
add_book_file(t, req) ==
    /\ Free(t)
    /\ seq + Inserting <= MaxBooks
    /\ IF ~FormOK(req)
       THEN /\ th' = [th EXCEPT ![t] = Respond(t, req, 422, NoBody)]
            /\ UNCHANGED uploads
       ELSE IF ~HasFile(req)
       THEN /\ th' = [th EXCEPT ![t] = [Idle EXCEPT !.pc = "insert", !.req = req]]
            /\ UNCHANGED uploads
       ELSE IF ~CanOpen(req.cover_image.filename)
       THEN /\ th' = [th EXCEPT ![t] = Respond(t, req, 500, NoBody)]
            /\ UNCHANGED uploads
       ELSE LET file_path == FilePath(Uuid4, req.cover_image.filename)
            IN  /\ uploads' = (file_path :> Written(req.cover_image.content)) @@ uploads
                /\ th' = [th EXCEPT ![t] =
                            [Idle EXCEPT !.pc = "insert", !.req = req,
                                         !.path = file_path]]
    /\ UNCHANGED <<books, tx, seq, returned>>

\* INSERT INTO books ... RETURNING id
NewRow(id, req, path) ==
    [id |-> id, title |-> strip(req.title), author |-> strip(req.author),
     publisher |-> PublisherValue(req.publisher), cover_image_path |-> path]

NextValStuck(s) == s

\* nextval of the SERIAL column's sequence
NextVal(s) == s + 1

add_book_insert(t) ==
    /\ th[t].pc = "insert"
    /\ tx' = tx \cup {NewRow(seq, th[t].req, th[t].path)}
    /\ seq' = NextVal(seq)
    /\ th' = [th EXCEPT ![t].pc = "commit", ![t].book_id = seq]
    /\ UNCHANGED <<books, uploads, returned>>

\* con.commit() ends the connection's transaction, whoever opened it
Commit == books \cup tx

\* con.commit(), then return Book(...)
add_book_commit(t) ==
    LET book == NewRow(th[t].book_id, th[t].req, th[t].path)
    IN  /\ th[t].pc = "commit"
        /\ books' = Commit
        /\ tx' = {}
        /\ IF Book(book)
           THEN /\ th' = [th EXCEPT ![t] = Respond(t, th[t].req, 201, book)]
                /\ returned' = returned \cup {book.id}
           ELSE /\ th' = [th EXCEPT ![t] = Respond(t, th[t].req, 500, NoBody)]
                /\ UNCHANGED returned
        /\ UNCHANGED <<seq, uploads>>

\* GET /books and GET /books/search, up to SELECT COUNT(*)
Count(req) == Cardinality(Selected(req))

RequestOK(req) ==
    /\ PagingOK(req.page, req.page_size)
    /\ (req.kind = "search" => QueryOK(req.query))

read_count(t, req) ==
    /\ Free(t)
    /\ IF ~RequestOK(req)
       THEN th' = [th EXCEPT ![t] = Respond(t, req, 422, NoBody)]
       ELSE th' = [th EXCEPT ![t] =
                     [Idle EXCEPT !.pc = "select", !.req = req,
                                  !.total = Count(req), !.seen = seq]]
    /\ UNCHANGED <<books, tx, seq, uploads, returned>>

get_all_books_count(t, req) == req.kind = "list" /\ read_count(t, req)

search_books_count(t, req) == req.kind = "search" /\ read_count(t, req)

\* SELECT ... ORDER BY id LIMIT %s OFFSET %s
Rows(req) ==
    LimitOffset(OrderById(Selected(req)), req.page_size,
                Offset(req.page, req.page_size))

\* the paginated select, the mapping of rows to Book, the response
read_select(t) ==
    LET req == th[t].req
        rows == Rows(req)
        body == [total |-> th[t].total, page |-> req.page,
                 page_size |-> req.page_size,
                 total_pages |-> TotalPages(th[t].total, req.page_size),
                 results |-> rows]
    IN  /\ th[t].pc = "select"
        /\ IF \A i \in 1..Len(rows) : Book(rows[i])
           THEN th' = [th EXCEPT ![t] =
                         [Respond(t, req, 200, body) EXCEPT !.seen = th[t].seen]]
           ELSE th' = [th EXCEPT ![t] = Respond(t, req, 500, NoBody)]
        /\ UNCHANGED <<books, tx, seq, uploads, returned>>

get_all_books_select(t) ==
    th[t].pc = "select" /\ th[t].req.kind = "list" /\ read_select(t)

search_books_select(t) ==
    th[t].pc = "select" /\ th[t].req.kind = "search" /\ read_select(t)

Next ==
    \/ \E t \in Threads, req \in CreateRequests : add_book_file(t, req)
    \/ \E t \in Threads : add_book_insert(t)
    \/ \E t \in Threads : add_book_commit(t)
    \/ \E t \in Threads, req \in ListRequests : get_all_books_count(t, req)
    \/ \E t \in Threads : get_all_books_select(t)
    \/ \E t \in Threads, req \in SearchRequests : search_books_count(t, req)
    \/ \E t \in Threads : search_books_select(t)

Spec == Init /\ [][Next]_vars

\* ------------------------------------------------------ the properties --
IsRead(r) == r.req.kind \in {"list", "search"}

\* q occurs in s as a contiguous run
Contains(s, q) ==
    \E i \in 0..(Len(s) - Len(q)) : SubSeq(s, i + 1, i + Len(q)) = q

\* the trimmed, lowercased query is a substring of a lowercased field
SubstringMatch(r, query) ==
    LET q == lower(strip(query))
    IN  \/ Contains(lower(r.title), q)
        \/ Contains(lower(r.author), q)
        \/ (r.publisher # NULL /\ Contains(lower(r.publisher), q))

TrimmedLenOK(s) == s # NULL /\ Len(strip(s)) >= 3 /\ Len(strip(s)) <= 100

\* C1: a create whose trimmed title or author is not 3..100 long is answered
\* 422 without reaching the INSERT, and no stored row has such a title or
\* author
C1_RejectedBeforePersistence ==
    /\ \A t \in Threads :
        (th[t].req.kind = "create"
           /\ ~(TrimmedLenOK(th[t].req.title) /\ TrimmedLenOK(th[t].req.author)))
        => /\ th[t].pc = "done"
           /\ th[t].status = 422
    /\ \A r \in Visible :
        Len(r.title) \in 3..100 /\ Len(r.author) \in 3..100

\* C2: the publisher of every row of the table is null or a non-empty string
C2_PublisherNullOrNonEmpty ==
    \A r \in books : r.publisher = NULL \/ r.publisher # <<>>

\* res is rows off+1 .. off+page_size of the rows M taken in ascending id
PageOf(res, M, page, page_size) ==
    LET off == (page - 1) * page_size
        left == Cardinality(M) - off
    IN  /\ Len(res) = IF left < 0 THEN 0
                      ELSE IF left < page_size THEN left ELSE page_size
        /\ \A i \in 1..Len(res) :
              /\ res[i] \in M
              /\ Cardinality({r \in M : r.id < res[i].id}) = off + i - 1

C3_Step ==
    \A t \in Threads :
       (th[t].pc = "select" /\ th'[t].pc = "done")
       => LET req == th[t].req
              M == Selected(req)
          IN  /\ th'[t].status = 200
                 => PageOf(th'[t].body.results, M, req.page, req.page_size)
              /\ (req.page - 1) * req.page_size >= Cardinality(M)
                 => th'[t].status = 200 /\ th'[t].body.results = <<>>

\* C3: a list or search that answers returns exactly the rows at positions
\* offset+1 .. offset+page_size of the (matching) rows in ascending id, and a
\* page at or beyond the end is answered 200 with no results
C3_PageIsSliceById == [][C3_Step]_vars

C3_Witness ==
    \E t \in Threads :
       /\ th[t].pc = "done" /\ IsRead(th[t]) /\ th[t].status = 200
       /\ th[t].req.page = 2
       /\ Len(th[t].body.results) = 1
       /\ th[t].body.results[1].id = 2

CeilOK(body) ==
    /\ body.total_pages * body.page_size >= body.total
    /\ (body.total_pages - 1) * body.page_size < body.total

Answered(t) == th[t].pc = "done" /\ IsRead(th[t]) /\ th[t].status = 200

\* C4 as stated: total_pages is the ceiling of total / page_size, and a
\* response with total 0 has total_pages 0 and no results
C4_Original ==
    \A t \in Threads :
       Answered(t)
       => /\ CeilOK(th[t].body)
          /\ th[t].body.total = 0
             => th[t].body.total_pages = 0 /\ th[t].body.results = <<>>

\* C4: total_pages is the ceiling of total / page_size; a response with
\* total 0 has total_pages 0, and every row among its results was inserted
\* after the request's count ran
C4_TotalPagesCeil ==
    \A t \in Threads :
       Answered(t)
       => /\ CeilOK(th[t].body)
          /\ th[t].body.total = 0
             => /\ th[t].body.total_pages = 0
                /\ \A i \in 1..Len(th[t].body.results) :
                      th[t].body.results[i].id >= th[t].seen

C4_Witness ==
    \E t \in Threads :
       /\ Answered(t)
       /\ th[t].body.total = 1 /\ th[t].body.page_size = 2
       /\ th[t].body.total_pages = 1
       /\ \E u \in Threads :
             Answered(u) /\ u # t /\ th[u].body.total = 0
             /\ th[u].body.results # <<>>

\* C5: the count of a search is the number of rows, among those in the
\* table when it ran, that hold the trimmed lowercased query as a substring
\* of a lowercased field, and every row returned is such a row
C5_MatchIffSubstring ==
    \A t \in Threads :
       th[t].req.kind = "search"
       => /\ th[t].pc = "select"
             => th[t].total =
                  Cardinality({r \in Visible :
                                 r.id < th[t].seen
                                 /\ SubstringMatch(r, th[t].req.query)})
          /\ (th[t].pc = "done" /\ th[t].status = 200)
             => \A i \in 1..Len(th[t].body.results) :
                   SubstringMatch(th[t].body.results[i], th[t].req.query)

C6_Step ==
    /\ \A t \in Threads :
          (th[t].pc = "insert" /\ th'[t].pc = "commit")
          => \A r \in Visible : r.id < th'[t].book_id
    /\ \A t \in Threads :
          (th[t].pc = "commit" /\ th'[t].pc = "done" /\ th'[t].status = 201)
          => /\ th'[t].body.id \notin returned
             /\ th'[t].body.id = th[t].book_id
             /\ \E r \in Visible' : r.id = th'[t].body.id
    /\ \A r \in Visible : r \in Visible'
    /\ \A r1 \in Visible', r2 \in Visible' : r1.id = r2.id => r1 = r2

\* C6: the id a create returns was returned by no earlier create and is
\* greater than the id of every row that existed before its insert; rows
\* keep their id
C6_IdsFreshAndFixed == [][C6_Step]_vars

C6_Witness ==
    /\ Cardinality(returned) = 2
    /\ \E t \in Threads : th[t].pc = "done" /\ th[t].status = 201
                          /\ th[t].body.id = 2

UnderUploads(path) ==
    /\ path[1] = "uploads"
    /\ \A i \in 1..Len(path[3]) : path[3][i] # "/"

NamedFile(req) ==
    req.cover_image.filename # NULL /\ req.cover_image.filename # <<>>

C7_Inv ==
    /\ \A r \in Visible :
          r.cover_image_path # NULL
          => r.cover_image_path \in DOMAIN uploads
             /\ UnderUploads(r.cover_image_path)
    /\ \A t \in Threads :
          th[t].pc \in {"insert", "commit"}
          => /\ NamedFile(th[t].req)
                => /\ th[t].path \in DOMAIN uploads
                   /\ uploads[th[t].path] = th[t].req.cover_image.content
             /\ ~NamedFile(th[t].req) => th[t].path = NULL
    /\ \A t \in Threads :
          th[t].pc = "commit"
          => \E r \in Visible : r.id = th[t].book_id
                                /\ r.cover_image_path = th[t].path

C7_Step ==
    /\ C7_Inv'
    /\ \A p \in DOMAIN uploads : p \in DOMAIN uploads' /\ uploads'[p] = uploads[p]
    /\ \A t \in Threads :
          (Free(t) /\ th'[t] # th[t]
             /\ th'[t].req.kind = "create" /\ ~NamedFile(th'[t].req))
          => uploads' = uploads
    /\ \A t \in Threads :
          (th[t].pc = "commit" /\ th'[t].status = 201 /\ ~NamedFile(th[t].req))
          => th'[t].body.cover_image_path = NULL

\* C7: a row with a cover_image_path names a file of uploads/ that already
\* exists when the row is inserted, holds the uploaded bytes and is never
\* changed afterwards; a create without a named file writes nothing and
\* stores null
C7_CoverFileWrittenFirst == [][C7_Step]_vars

C7_Witness ==
    /\ \E r \in books :
          /\ r.cover_image_path # NULL
          /\ uploads[r.cover_image_path] = Png.content
    /\ \E r \in books : r.cover_image_path = NULL

\* C8: a search runs only when its trimmed query is 3..100 long; otherwise
\* it is answered 422
C8_QueryTrimmedLength ==
    \A t \in Threads :
       th[t].req.kind = "search"
       => IF TrimmedLenOK(th[t].req.query)
          THEN TRUE
          ELSE th[t].pc = "done" /\ th[t].status = 422

\* C9: a row inserted by a create that has not committed yet is in no
\* committed state (no other request's commit commits it), and no count of
\* a concurrent list or search includes it
C9_CreateIsOwnTransaction ==
    \A t \in Threads :
       /\ th[t].pc = "commit"
          => \A r \in books : r.id # th[t].book_id
       /\ th[t].pc = "select"
          => th[t].total <=
               Cardinality({r \in books : r \in Selected(th[t].req)})

\* C10: every stored row satisfies the Book model, and a list or search
\* with valid parameters is answered 200
C10_RowsValidReadsSucceed ==
    /\ \A r \in Visible :
          /\ Len(r.title) \in 3..100
          /\ Len(r.author) \in 3..100
          /\ (r.publisher = NULL \/ Len(r.publisher) \in 3..100)
    /\ \A t \in Threads :
          (th[t].pc = "done" /\ IsRead(th[t])
             /\ th[t].req.page >= 1 /\ th[t].req.page_size \in 1..50
             /\ (th[t].req.kind = "search"
                   => th[t].req.query # NULL /\ Len(th[t].req.query) \in 3..100))
          => th[t].status = 200

====
